---- MODULE Spec2Model ----
(***************************************************************************)
(* Model of src/nrepl/index.ts: the nREPL client (NReplClient), its        *)
(* sessions (NReplSession) and the evaluation accumulator                  *)
(* (NReplEvaluation).                                                      *)
(*                                                                         *)
(* Imperative handler code is translated as operators that take the whole  *)
(* program state as a record `st` and return the state after the call, so  *)
(* that a handler's statements compose in source order.  An action applies *)
(* one handler to the current state and commits the result.                *)
(***************************************************************************)
EXTENDS Integers, Sequences, FiniteSets, TLC

VARIABLES
  nextId,         \* NReplClient._nextId
  describe,       \* NReplClient.describe: [has |-> is it set, ops |-> describe.ops keys]
  clientSession,  \* NReplClient.session: index of a session object, 0 when unset
  sessions,       \* NReplClient.sessions: session id -> session object
  created,        \* has the promise of NReplClient.create been resolved
  wire,           \* every message handed to the encoder, in order
  sess,           \* the NReplSession objects, in creation order
  sessInstances,  \* NReplSession.Instances
  evs,            \* the NReplEvaluation objects, in creation order
  evalInstances,  \* NReplEvaluation.Instances
  calls,          \* promises returned by session operations, in creation order
  debugResponse,  \* getStateValue(DEBUG_RESPONSE_KEY): id of the pending debug response, 0 when none
  closeHandlers,  \* NReplClient._closeHandlers
  notified,       \* the calls the last closing operation made to close listeners, in order
  socketOpen,     \* the transport has not emitted close
  answered        \* the server: the requests (places in wire) it has sent the terminal message of

vars == <<nextId, describe, clientSession, sessions, created, wire, sess,
          sessInstances, evs, evalInstances, calls, debugResponse,
          closeHandlers, notified, socketOpen, answered>>

----------------------------------------------------------------------------
(* Bounds of the model *)

MaxId == 6          \* ids the connection hands out
MaxEvals == 1       \* evaluation objects created
MaxMuxEvals == 2    \* evaluation objects created where evaluations run side by side
MaxSessions == 2    \* session objects created
MaxMsgs == 3        \* messages delivered to one evaluation
MaxListeners == 2   \* close listeners registered on a connection and its sessions

----------------------------------------------------------------------------
(* Values *)

UNDEF == "<undefined>"
NULL == "<null>"
DEBUG_QUIT_VALUE == ":calva/debug-quit"
INTERRUPTED_MSG == "Evaluation was interrupted"
NOT_SUPPORTED_MSG == "interrupt not supported by the nREPL server"

\* ids allocated by the connect callback of NReplClient.create
NsId == 1
CloneId == 2
DescribeId == 3


\* JavaScript truthiness of a string-or-undefined value
Truthy(x) == x # UNDEF /\ x # NULL /\ x # ""

InSeq(x, q) == \E i \in 1..Len(q) : q[i] = x

\* Array.indexOf + splice(index, 1): drop the first occurrence
RemoveFirst(q, x) ==
  IF ~InSeq(x, q) THEN q
  ELSE LET i == CHOOSE k \in 1..Len(q) : q[k] = x /\ \A j \in 1..(k - 1) : q[j] # x
       IN SubSeq(q, 1, i - 1) \o SubSeq(q, i + 1, Len(q))

\* a JavaScript object used as a dictionary
EmptyDict == [k \in {} |-> 0]
Put(d, k, v) == [x \in (DOMAIN d) \cup {k} |-> IF x = k THEN v ELSE d[x]]
Del(d, k) == [x \in (DOMAIN d) \ {k} |-> d[x]]

----------------------------------------------------------------------------
(* Messages *)

\* a request as written to the transport; id 0: the message carries no id
Req(op, id, session, iid) == [op |-> op, id |-> id, session |-> session, iid |-> iid]

\* a decoded inbound message; absent keys are UNDEF (status: the empty array)
Msg0 == [id |-> 0, session |-> UNDEF, status |-> <<>>, out |-> UNDEF, err |-> UNDEF,
         ex |-> UNDEF, value |-> UNDEF, debugValue |-> UNDEF, pprintOut |-> UNDEF,
         causes |-> FALSE, replType |-> UNDEF, newSession |-> UNDEF, ops |-> {}]

hasStatus(res, status) == InSeq(status, res.status)

\* msg.status && msg.status == 'x': the array compared to a string by coercion,
\* equal only when the array is exactly [x]
statusEq(res, status) == res.status = <<status>>

----------------------------------------------------------------------------
(* The program state as one record, and its commit *)

State ==
  [nextId |-> nextId, describe |-> describe, session |-> clientSession,
   sessions |-> sessions, created |-> created, wire |-> wire, sess |-> sess,
   sessInstances |-> sessInstances, evs |-> evs, evalInstances |-> evalInstances,
   calls |-> calls, debugResponse |-> debugResponse,
   closeHandlers |-> closeHandlers, notified |-> notified, socketOpen |-> socketOpen]

Commit(st) ==
  /\ nextId' = st.nextId
  /\ describe' = st.describe
  /\ clientSession' = st.session
  /\ sessions' = st.sessions
  /\ created' = st.created
  /\ wire' = st.wire
  /\ sess' = st.sess
  /\ sessInstances' = st.sessInstances
  /\ evs' = st.evs
  /\ evalInstances' = st.evalInstances
  /\ calls' = st.calls
  /\ debugResponse' = st.debugResponse
  /\ closeHandlers' = st.closeHandlers
  /\ notified' = st.notified
  /\ socketOpen' = st.socketOpen

\* the listeners a caller may register: one that returns, one that throws
Listeners == {"quiet", "throwing"}

\* the bounds, checked on the state a step would produce
Within(st) ==
  /\ st.nextId <= MaxId
  /\ Len(st.wire) <= MaxId
  /\ Len(st.calls) <= MaxId
  /\ Len(st.sess) <= MaxSessions
  /\ \A e \in 1..Len(st.evs) : Len(st.evs[e].msgs) <= MaxMsgs
  /\ Len(st.closeHandlers)
       + Cardinality({ p \in (1..Len(st.sess)) \X (1..Cardinality(Listeners)) :
                         p[2] <= Len(st.sess[p[1]].onCloseHandlers) })
       <= MaxListeners

Bounded(st) == Within(st) /\ Len(st.evs) <= MaxEvals

BoundedMux(st) == Within(st) /\ Len(st.evs) <= MaxMuxEvals

----------------------------------------------------------------------------
(* Close listeners *)

\* a call of the listener fn; on: the session (its place in sess) it was
\* called with, 0 for the client
Note(fn, on) == [fn |-> fn, on |-> on]

\* fns.forEach((x) => x(on)): the listeners are called in order until one
\* throws; thrown: did the exception leave the loop
RECURSIVE forEachListener(_, _, _)
forEachListener(st, fns, on) ==
  IF fns = <<>> THEN [st |-> st, thrown |-> FALSE]
  ELSE LET s1 == [st EXCEPT !.notified = Append(@, Note(Head(fns), on))]
       IN IF Head(fns) = "throwing"
          THEN [st |-> s1, thrown |-> TRUE]
          ELSE forEachListener(s1, Tail(fns), on)

\* `notified` logs the listener calls of the closing operation last run
Quiet(st) == [st EXCEPT !.notified = <<>>]

\* addOnCloseHandler: push unless indexOf finds it
addOnCloseHandler(fns, fn) == IF InSeq(fn, fns) THEN fns ELSE Append(fns, fn)

----------------------------------------------------------------------------
(* NReplClient *)

\* nextId that hands out the current value again
allocIdStuck(st) == st

\* get nextId(): ++this._nextId; the id handed out is the new counter value
allocId(st) == [st EXCEPT !.nextId = @ + 1]

\* NReplClient.write / encoder.write
write(st, data) == [st EXCEPT !.wire = Append(@, data)]

----------------------------------------------------------------------------
(* NReplSession: construction, capability query, running ids *)

NewSessionObj(sid) ==
  [sessionId |-> sid, runningIds |-> <<>>, messageHandlers |-> EmptyDict,
   replType |-> NULL, onCloseHandlers |-> <<>>]

\* constructor: client.sessions[sessionId] = this; Instances.push(this)
newNReplSession(st, sid) ==
  LET n == Len(st.sess) + 1
  IN [st EXCEPT !.sess = Append(@, NewSessionObj(sid)),
                !.sessions = Put(@, sid, n),
                !.sessInstances = Append(@, n)]

supports(st, op) == st.describe.has /\ op \in st.describe.ops

addRunningID(st, s, id) ==
  IF id # 0 /\ ~InSeq(id, st.sess[s].runningIds)
  THEN [st EXCEPT !.sess[s].runningIds = Append(@, id)]
  ELSE st

\* a promise returned by a session operation.  then: the evaluation whose
\* onMessage chained .then/.catch on it (0: none); thenRun: has that run
NewCall(op, state, value, then) ==
  [op |-> op, state |-> state, value |-> value, then |-> then, thenRun |-> FALSE]

\* resolve / reject of a promise: only the first call settles it
settle(st, c, state, value) ==
  IF st.calls[c].state = "pending"
  THEN [st EXCEPT !.calls[c].state = state, !.calls[c].value = value]
  ELSE st

\* the response a promise is resolved with, as a value of the promise
raw(res) == ToString(res)

\* a resultHandler that resolves whatever the status
resultHandlerResolves(st, c, res) == settle(st, c, "resolved", raw(res))

\* resultHandler(resolve, reject)(res); always returns true
resultHandler(st, c, res) ==
  IF hasStatus(res, "unknown-op")
  THEN settle(st, c, "rejected", "unknown-op")
  ELSE settle(st, c, "resolved", raw(res))

\* NReplSession.stacktrace, e: the evaluation that chains on the promise
stacktrace(st, s, e) ==
  LET st1 == allocId(st)
      id == st1.nextId
      msg == Req("stacktrace", id, st.sess[s].sessionId, 0)
      c == Len(st.calls) + 1
  IN IF supports(st1, msg.op)
     THEN write([st1 EXCEPT
                   !.calls = Append(@, NewCall("stacktrace", "pending", UNDEF, e)),
                   !.sess[s].messageHandlers = Put(@, id, [kind |-> "result", ref |-> c])],
                msg)
     ELSE [st1 EXCEPT !.calls = Append(@, NewCall("stacktrace", "resolved", UNDEF, e))]

\* NReplSession.interrupt
interrupt(st, s, interruptId) ==
  LET st0 == [st EXCEPT !.sess[s].runningIds = RemoveFirst(@, interruptId)]
      st1 == allocId(st0)
      id == st1.nextId
      msg == Req("interrupt", id, st.sess[s].sessionId, interruptId)
      c == Len(st.calls) + 1
  IN IF supports(st1, msg.op)
     THEN write([st1 EXCEPT
                   !.calls = Append(@, NewCall("interrupt", "pending", UNDEF, 0)),
                   !.sess[s].messageHandlers = Put(@, id, [kind |-> "result", ref |-> c])],
                msg)
     ELSE [st1 EXCEPT
             !.calls = Append(@, NewCall("interrupt", "rejected", NOT_SUPPORTED_MSG, 0))]

\* ids.forEach((id) => this.interrupt(id).catch(...)): the catch throws
\* inside the promise chain, out of reach of the loop
RECURSIVE interruptEach(_, _, _)
interruptEach(st, s, ids) ==
  IF ids = <<>> THEN st
  ELSE interruptEach(interrupt(st, s, Head(ids)), s, Tail(ids))

\* interruptAll that gives up at the first interrupt that fails
interruptAllUntilFailure(st, s) ==
  LET ids == st.sess[s].runningIds
      s0 == [st EXCEPT !.sess[s].runningIds = <<>>]
  IN IF Len(ids) > 0
     THEN [st |-> IF supports(st, "interrupt")
                  THEN interruptEach(s0, s, ids)
                  ELSE interrupt(s0, s, Head(ids)),
           n |-> Len(ids)]
     ELSE [st |-> st, n |-> 0]

\* NReplSession.interruptAll: the state after it and the number it returns
interruptAll(st, s) ==
  LET ids == st.sess[s].runningIds
  IN IF Len(ids) > 0
     THEN [st |-> interruptEach([st EXCEPT !.sess[s].runningIds = <<>>], s, ids),
           n |-> Len(ids)]
     ELSE [st |-> st, n |-> 0]

----------------------------------------------------------------------------
(* NReplEvaluation *)

\* settles: the calls made to the resolve / reject callbacks of the
\* evaluation's promise, in order; hasStdin: the caller gave a stdin function;
\* prompts: the requests for input that wait for their answer
NewEvaluation(id, s, pprint) ==
  [id |-> id, session |-> s, pprint |-> pprint,
   running |-> FALSE, finished |-> FALSE, interrupted |-> FALSE,
   exception |-> UNDEF, stacktrace |-> UNDEF, msgValue |-> UNDEF,
   pprintOut |-> UNDEF, outPut |-> UNDEF, errorOutput |-> UNDEF,
   msgs |-> <<>>, hasHandlers |-> FALSE, settles |-> <<>>,
   hasStdin |-> FALSE, prompts |-> 0]

Settle(kind, reason) == [kind |-> kind, reason |-> reason]

\* add(): push unless already included
add(st, e) ==
  IF InSeq(e, st.evalInstances) THEN st
  ELSE [st EXCEPT !.evalInstances = Append(@, e)]

\* remove(): indexOf + splice
remove(st, e) == [st EXCEPT !.evalInstances = RemoveFirst(@, e)]

doResolve(st, e, reason) ==
  LET st1 == IF st.evs[e].hasHandlers /\ ~st.evs[e].finished
             THEN [st EXCEPT !.evs[e].settles = Append(@, Settle("resolve", reason))]
             ELSE st
  IN [st1 EXCEPT !.evs[e].running = FALSE, !.evs[e].finished = TRUE]

\* doReject without the finished guard
doRejectUnguarded(st, e, reason) ==
  LET st1 == IF st.evs[e].hasHandlers
             THEN [st EXCEPT !.evs[e].settles = Append(@, Settle("reject", reason))]
             ELSE st
  IN [st1 EXCEPT !.evs[e].running = FALSE, !.evs[e].finished = TRUE]

doReject(st, e, reason) ==
  LET st1 == IF st.evs[e].hasHandlers /\ ~st.evs[e].finished
             THEN [st EXCEPT !.evs[e].settles = Append(@, Settle("reject", reason))]
             ELSE st
  IN [st1 EXCEPT !.evs[e].running = FALSE, !.evs[e].finished = TRUE]

\* get msgValue()
msgValue(ev) == IF Truthy(ev.msgValue) THEN ev.msgValue ELSE ""

\* out that puts the new text first
outPrepend(st, e, message) ==
  [st EXCEPT !.evs[e].outPut = IF ~Truthy(@) THEN message ELSE message \o @]

\* out(message); the stdout callback is a collaborator and keeps no state here
out(st, e, message) ==
  [st EXCEPT !.evs[e].outPut = IF ~Truthy(@) THEN message ELSE @ \o message]

\* err(message)
err(st, e, message) ==
  [st EXCEPT !.evs[e].errorOutput = IF ~Truthy(@) THEN message ELSE @ \o message]

\* interrupt without its guard
evInterruptAlways(st, e) ==
  LET st1 == remove(st, e)
      st2 == [st1 EXCEPT !.evs[e].interrupted = TRUE,
                         !.evs[e].exception = INTERRUPTED_MSG,
                         !.evs[e].stacktrace = "{}"]
      st3 == interrupt(st2, st2.evs[e].session, st2.evs[e].id)
      st4 == doReject(st3, e, st3.evs[e].exception)
  IN [st4 EXCEPT !.sess[st4.evs[e].session].messageHandlers = Del(@, st4.evs[e].id)]

\* interrupt that leaves the rejection to the answer of the interrupt request
evInterruptDeferred(st, e) ==
  IF ~st.evs[e].interrupted /\ st.evs[e].running
  THEN LET st1 == remove(st, e)
           st2 == [st1 EXCEPT !.evs[e].interrupted = TRUE,
                              !.evs[e].exception = INTERRUPTED_MSG,
                              !.evs[e].stacktrace = "{}"]
           st3 == interrupt(st2, st2.evs[e].session, st2.evs[e].id)
       IN [st3 EXCEPT !.sess[st3.evs[e].session].messageHandlers = Del(@, st3.evs[e].id)]
  ELSE st

\* NReplEvaluation.interrupt
evInterrupt(st, e) ==
  IF ~st.evs[e].interrupted /\ st.evs[e].running
  THEN LET st1 == remove(st, e)
           st2 == [st1 EXCEPT !.evs[e].interrupted = TRUE,
                              !.evs[e].exception = INTERRUPTED_MSG,
                              !.evs[e].stacktrace = "{}"]
           st3 == interrupt(st2, st2.evs[e].session, st2.evs[e].id)
           st4 == doReject(st3, e, st3.evs[e].exception)
       IN [st4 EXCEPT !.sess[st4.evs[e].session].messageHandlers = Del(@, st4.evs[e].id)]
  ELSE st

\* items.forEach(...): each item that is neither interrupted nor finished is
\* counted and interrupted; what interrupt() may throw is caught per item
RECURSIVE interruptItems(_, _, _)
interruptItems(st, items, num) ==
  IF items = <<>> THEN [st |-> st, n |-> num]
  ELSE LET item == Head(items)
       IN IF ~st.evs[item].interrupted /\ ~st.evs[item].finished
          THEN interruptItems(evInterrupt(st, item), Tail(items), num + 1)
          ELSE interruptItems(st, Tail(items), num)

\* the loop run over Instances itself, place by place, while interrupt()
\* splices the array
RECURSIVE interruptLive(_, _, _)
interruptLive(st, i, num) ==
  IF i > Len(st.evalInstances) THEN [st |-> st, n |-> num]
  ELSE LET item == st.evalInstances[i]
       IN IF ~st.evs[item].interrupted /\ ~st.evs[item].finished
          THEN interruptLive(evInterrupt(st, item), i + 1, num + 1)
          ELSE interruptLive(st, i + 1, num)

\* interruptAll without the copy of Instances
evInterruptAllLive(st) == interruptLive(st, 1, 0)

\* static NReplEvaluation.interruptAll(stderr): the state after it and the
\* number it returns
evInterruptAll(st) == interruptItems(st, st.evalInstances, 0)

\* setHandlers(resolve, reject)
setHandlers(st, e) == [st EXCEPT !.evs[e].hasHandlers = TRUE]

\* prettyPrint of cljs-lib, a collaborator: the rendering of a value
prettyPrint(v) == "pp(" \o v \o ")"

CAUSE_MSG == "Class: message"

\* b || a
OrRight(a, b) == IF Truthy(b) THEN b ELSE a

\* a || b
Or(a, b) == IF Truthy(a) THEN a ELSE b

\* onMessage, the part run for every message: lines 1115-1143
accumulate(st, e, msg) ==
  LET s0 == add([st EXCEPT !.evs[e].running = TRUE], e)
      s1 == [s0 EXCEPT !.evs[e].msgs = Append(@, msg)]
      s2 == IF Truthy(msg.out) THEN out(s1, e, msg.out) ELSE s1
      s3 == IF Truthy(msg.err) /\ msgValue(s2.evs[e]) # DEBUG_QUIT_VALUE
            THEN err(s2, e, msg.err) ELSE s2
      s4 == IF Truthy(msg.ex) THEN [s3 EXCEPT !.evs[e].exception = msg.ex] ELSE s3
      s5 == IF hasStatus(msg, "eval-error") /\ msg.causes
            THEN err([s4 EXCEPT !.evs[e].stacktrace = "causes[0].stacktrace"], e, CAUSE_MSG)
            ELSE s4
      s6 == IF msg.value # UNDEF \/ msg.debugValue # UNDEF
            THEN [s5 EXCEPT !.evs[e].msgValue = Or(msg.value, msg.debugValue)]
            ELSE s5
  IN IF Truthy(msg.pprintOut) THEN [s6 EXCEPT !.evs[e].pprintOut = msg.pprintOut] ELSE s6

\* the terminal branch without remove()
terminalKeepsInstance(st, e) ==
  LET ev == st.evs[e]
  IN IF Truthy(ev.exception) /\ msgValue(ev) # DEBUG_QUIT_VALUE
     THEN IF supports(st, "stacktrace")
          THEN stacktrace(st, ev.session, e)
          ELSE doReject(st, e, ev.exception)
     ELSE IF Truthy(ev.pprintOut) THEN doResolve(st, e, ev.pprintOut)
     ELSE IF ev.stacktrace # UNDEF THEN doReject(st, e, "")
     ELSE doResolve(st, e, IF ev.pprint THEN prettyPrint(msgValue(ev)) ELSE msgValue(ev))

\* the terminal branch that looks at the pretty-printed value first
terminalPprintFirst(st, e) ==
  LET s0 == remove(st, e)
      ev == s0.evs[e]
  IN IF Truthy(ev.pprintOut) THEN doResolve(s0, e, ev.pprintOut)
     ELSE IF Truthy(ev.exception) /\ msgValue(ev) # DEBUG_QUIT_VALUE
     THEN IF supports(s0, "stacktrace")
          THEN stacktrace(s0, ev.session, e)
          ELSE doReject(s0, e, ev.exception)
     ELSE IF ev.stacktrace # UNDEF THEN doReject(s0, e, "")
     ELSE doResolve(s0, e, IF ev.pprint THEN prettyPrint(msgValue(ev)) ELSE msgValue(ev))

\* onMessage, the terminal branch: lines 1171-1206
terminal(st, e) ==
  LET s0 == remove(st, e)
      ev == s0.evs[e]
  IN IF Truthy(ev.exception) /\ msgValue(ev) # DEBUG_QUIT_VALUE
     THEN IF supports(s0, "stacktrace")
          THEN stacktrace(s0, ev.session, e)
          ELSE doReject(s0, e, ev.exception)
     ELSE IF Truthy(ev.pprintOut) THEN doResolve(s0, e, ev.pprintOut)
     ELSE IF ev.stacktrace # UNDEF THEN doReject(s0, e, "")
     ELSE doResolve(s0, e, IF ev.pprint THEN prettyPrint(msgValue(ev)) ELSE msgValue(ev))

\* onMessage on need-input: lines 1144-1170; the input is asked for, and the
\* answer comes in a later step
needInput(st, e, msg) ==
  IF statusEq(msg, "need-input")
  THEN [st EXCEPT !.evs[e].prompts = @ + 1]
  ELSE st

isTerminal(msg) == hasStatus(msg, "done") \/ hasStatus(msg, "need-debug-input")

\* onMessage(msg, pprintOptions): the state after it and its return value
onMessage(st, e, msg) ==
  LET s == needInput(accumulate(st, e, msg), e, msg)
  IN IF isTerminal(msg)
     THEN [st |-> terminal(s, e), res |-> TRUE]
     ELSE [st |-> s, res |-> FALSE]

\* the continuation with a .catch that does nothing
stacktraceThenOnly(st, c) ==
  LET e == st.calls[c].then
      s0 == [st EXCEPT !.calls[c].thenRun = TRUE]
  IN IF st.calls[c].state = "resolved"
     THEN doReject([s0 EXCEPT !.evs[e].stacktrace = st.calls[c].value], e, s0.evs[e].exception)
     ELSE s0

\* the continuation onMessage chains on the stacktrace promise c:
\* .then(stacktrace => ...) when it resolved, .catch(e => ...) when it rejected
stacktraceThen(st, c) ==
  LET e == st.calls[c].then
      s0 == [st EXCEPT !.calls[c].thenRun = TRUE]
      s1 == IF st.calls[c].state = "resolved"
            THEN [s0 EXCEPT !.evs[e].stacktrace = st.calls[c].value]
            ELSE s0
  IN doReject(s1, e, s1.evs[e].exception)

----------------------------------------------------------------------------
(* NReplSession: operations *)

\* _createEvalOperationMessage: the id and op of the request.  active:
\* vscode.debug.activeDebugSession is set
createEvalOperationMessage(st, s, active) ==
  IF st.debugResponse # 0 /\ active /\ st.sess[s].replType = "clj"
  THEN [st |-> st, id |-> st.debugResponse, op |-> "debug-input"]
  ELSE [st |-> allocId(st), id |-> allocId(st).nextId, op |-> "eval"]

\* the promise executor shared by eval and loadFile
evalExecutor(st, s, e, id, op) ==
  IF supports(st, op)
  THEN write(addRunningID(
               [st EXCEPT !.sess[s].messageHandlers = Put(@, id, [kind |-> "eval", ref |-> e])],
               s, id),
             Req(op, id, st.sess[s].sessionId, 0))
  ELSE [st EXCEPT !.evs[e].settles = Append(@, Settle("resolve", UNDEF))]

\* NReplSession.eval
eval(st, s, active, pprint) ==
  LET m == createEvalOperationMessage(st, s, active)
      e == Len(st.evs) + 1
      s1 == [m.st EXCEPT !.evs = Append(@, NewEvaluation(m.id, s, pprint))]
  IN evalExecutor(s1, s, e, m.id, m.op)

\* NReplSession.loadFile
loadFile(st, s, pprint) ==
  LET s0 == allocId(st)
      e == Len(st.evs) + 1
      s1 == [s0 EXCEPT !.evs = Append(@, NewEvaluation(s0.nextId, s, pprint))]
  IN evalExecutor(s1, s, e, s0.nextId, "load-file")

\* operations of the shape of listSessions: fresh id, capability check, then
\* handler registration and write, else resolve(undefined).  kind: the handler,
\* resultHandler ("result"), msg => resolve(msg) ("raw") or _refresh's ("refresh")
GatedResultOps ==
  {"ls-sessions", "stacktrace", "complete", "info", "classpath", "test-var-query",
   "retest", "ns-load-all", "ns-list", "ns-path", "format-code",
   "debug-instrumented-defs"}
GatedRawOps == {"test-stacktrace", "clojuredocs-refresh-cache", "clojuredocs-lookup"}
GatedRefreshOps == {"refresh", "refresh-all"}
GatedOps == GatedResultOps \cup GatedRawOps \cup GatedRefreshOps

\* operations that write without asking supports(): describe, outSubscribe
UngatedOps == {"describe", "out-subscribe"}

\* operations that return no promise: stdin (no id), initDebugger
VoidOps == {"stdin", "init-debugger"}

HandlerKind(op) ==
  IF op \in GatedRawOps THEN "raw" ELSE IF op \in GatedRefreshOps THEN "refresh" ELSE "result"

gatedCall(st, s, op) ==
  LET st1 == allocId(st)
      id == st1.nextId
      c == Len(st.calls) + 1
  IN IF supports(st1, op)
     THEN write([st1 EXCEPT
                   !.calls = Append(@, NewCall(op, "pending", UNDEF, 0)),
                   !.sess[s].messageHandlers = Put(@, id, [kind |-> HandlerKind(op), ref |-> c])],
                Req(op, id, st.sess[s].sessionId, 0))
     ELSE [st1 EXCEPT !.calls = Append(@, NewCall(op, "resolved", UNDEF, 0))]

\* describe / outSubscribe
ungatedCall(st, s, op) ==
  LET st1 == allocId(st)
      id == st1.nextId
      c == Len(st.calls) + 1
  IN write([st1 EXCEPT
              !.calls = Append(@, NewCall(op, "pending", UNDEF, 0)),
              !.sess[s].messageHandlers = Put(@, id, [kind |-> "result", ref |-> c])],
           Req(op, id, st.sess[s].sessionId, 0))

\* NReplSession.stdin
stdin(st, s) ==
  IF supports(st, "stdin") THEN write(st, Req("stdin", 0, st.sess[s].sessionId, 0)) ELSE st

\* the answers to a request for input: a line, nothing (the prompt was
\* dismissed), or a failure
Inputs == {"line", "none", "fails"}

\* the promise job chained on the request for input: stdin().then / .catch
\* when the caller gave a stdin function, else promptForUserInputString
stdinThen(st, e, input) ==
  LET s0 == [st EXCEPT !.evs[e].prompts = @ - 1]
      s == s0.evs[e].session
  IN IF s0.evs[e].hasStdin
     THEN IF input = "fails"
          THEN stdin(err(s0, e, "Failed to retrieve input: reason"), s)
          ELSE stdin(s0, s)
     ELSE IF input = "fails" THEN stdin(s0, s)
          ELSE IF input = "none" THEN evInterrupt(out(s0, e, "Sending interrupt."), e)
          ELSE stdin(s0, s)

\* NReplSession.initDebugger
initDebugger(st, s) ==
  LET st1 == allocId(st)
  IN IF supports(st1, "init-debugger")
     THEN write(st1, Req("init-debugger", st1.nextId, st.sess[s].sessionId, 0))
     ELSE st1

\* NReplSession.clone: the handler is registered before the capability check
clone(st, s) ==
  LET st1 == allocId(st)
      id == st1.nextId
      c == Len(st.calls) + 1
      st2 == [st1 EXCEPT
                !.calls = Append(@, NewCall("clone", "pending", UNDEF, 0)),
                !.sess[s].messageHandlers = Put(@, id, [kind |-> "clone", ref |-> c])]
  IN IF supports(st2, "clone")
     THEN write(st2, Req("clone", id, st.sess[s].sessionId, 0))
     ELSE settle(st2, c, "resolved", UNDEF)

\* NReplSession.sendDebugInput(input, debugResponseId, debugResponseKey)
sendDebugInput(st, s, debugResponseId) ==
  LET c == Len(st.calls) + 1
  IN IF supports(st, "debug-input")
     THEN write([st EXCEPT
                   !.calls = Append(@, NewCall("debug-input", "pending", UNDEF, 0)),
                   !.sess[s].messageHandlers =
                      Put(@, debugResponseId, [kind |-> "result", ref |-> c])],
                Req("debug-input", debugResponseId, st.sess[s].sessionId, 0))
     ELSE [st EXCEPT !.calls = Append(@, NewCall("debug-input", "resolved", UNDEF, 0))]

\* the operations a session exposes, by op name
SessionOps ==
  GatedOps \cup UngatedOps \cup VoidOps \cup
  {"clone", "eval", "load-file", "interrupt", "debug-input"}

\* the session operation of op name op, called on session s
call(st, s, op) ==
  CASE op \in GatedOps -> gatedCall(st, s, op)
    [] op \in UngatedOps -> ungatedCall(st, s, op)
    [] op = "stdin" -> stdin(st, s)
    [] op = "init-debugger" -> initDebugger(st, s)
    [] op = "clone" -> clone(st, s)
    [] op = "eval" -> eval(st, s, FALSE, FALSE)
    [] op = "load-file" -> loadFile(st, s, FALSE)
    [] op = "interrupt" -> interrupt(st, s, NsId)
    [] op = "debug-input" -> sendDebugInput(st, s, NsId)

----------------------------------------------------------------------------
(* Closing: NReplSession.close, NReplClient.close, the socket's close event *)

\* is the session object at place s the one the registry holds under its id
Registered(st, s) ==
  /\ st.sess[s].sessionId \in DOMAIN st.sessions
  /\ st.sessions[st.sess[s].sessionId] = s

\* NReplSession.close; writeThrows: client.write throws.  thrown: an
\* exception left close(), which only a listener called in `finally` can cause
sessionClose(st, s, writeThrows) ==
  LET sid == st.sess[s].sessionId
      s1 == IF supports(st, "close") /\ ~writeThrows
            THEN write(st, Req("close", 0, sid, 0))
            ELSE st
      s2 == [s1 EXCEPT !.sess[s].runningIds = <<>>,
                       !.sessions = Del(@, sid),
                       !.sessInstances = RemoveFirst(@, s)]
  IN forEachListener(s2, s2.sess[s].onCloseHandlers, s)

\* for (const id in this.sessions) this.sessions[id].close(), from place s on;
\* the keys are visited in insertion order, which is the order of creation
RECURSIVE closeSessions(_, _)
closeSessions(st, s) ==
  IF s > Len(st.sess) THEN [st |-> st, thrown |-> FALSE]
  ELSE IF ~Registered(st, s) THEN closeSessions(st, s + 1)
  ELSE LET r == sessionClose(st, s, FALSE)
       IN IF r.thrown THEN r ELSE closeSessions(r.st, s + 1)

\* NReplClient.close; the disconnect it schedules is the later close event
clientClose(st) == closeSessions(st, 1)

\* for (const x in this.sessions) this.sessions[x]._onCloseHandlers.forEach(...)
RECURSIVE notifySessions(_, _)
notifySessions(st, s) ==
  IF s > Len(st.sess) THEN [st |-> st, thrown |-> FALSE]
  ELSE IF ~Registered(st, s) THEN notifySessions(st, s + 1)
  ELSE LET r == forEachListener(st, st.sess[s].onCloseHandlers, s)
       IN IF r.thrown THEN r ELSE notifySessions(r.st, s + 1)

\* the socket's close callback: one try block around both loops, and a catch
\* that logs
onSocketClose(st) ==
  LET r1 == forEachListener(st, st.closeHandlers, 0)
      r2 == IF r1.thrown THEN r1 ELSE notifySessions(r1.st, 1)
  IN [st |-> [r2.st EXCEPT !.socketOpen = FALSE], thrown |-> FALSE]

----------------------------------------------------------------------------
(* NReplSession: dispatch *)

_defaultMessageHandler(st, s, msgData) ==
  LET s1 == IF Truthy(msgData.replType)
            THEN [st EXCEPT !.sess[s].replType = msgData.replType]
            ELSE st
  IN IF ~statusEq(msgData, "done") THEN addRunningID(s1, s, msgData.id) ELSE s1

\* this.messageHandlers[data.id](data): the state after it and its return value
runHandler(st, s, h, data) ==
  CASE h.kind = "eval" -> onMessage(setHandlers(st, h.ref), h.ref, data)
    [] h.kind = "result" -> [st |-> resultHandler(st, h.ref, data), res |-> TRUE]
    [] h.kind = "raw" -> [st |-> settle(st, h.ref, "resolved", raw(data)), res |-> TRUE]
    [] h.kind = "refresh" ->
         IF hasStatus(data, "done")
         THEN [st |-> settle(st, h.ref, "resolved", "refresh-result"), res |-> TRUE]
         ELSE [st |-> st, res |-> FALSE]
    [] h.kind = "clone" ->
         [st |-> settle(newNReplSession(st, data.newSession), h.ref, "resolved", "session"),
          res |-> TRUE]

\* _response that hands the message to the oldest registered handler,
\* whatever the id of the message
_responseOldest(st, s, data) ==
  LET hs == st.sess[s].messageHandlers
  IN IF DOMAIN hs # {}
     THEN LET id == CHOOSE k \in DOMAIN hs : \A j \in DOMAIN hs : k <= j
              r == runHandler(st, s, hs[id], data)
          IN IF r.res
             THEN [r.st EXCEPT !.sess[s].messageHandlers = Del(@, id)]
             ELSE r.st
     ELSE _defaultMessageHandler(st, s, data)

\* _response that forgets the handler whatever it returns
_responseOneShot(st, s, data) ==
  IF data.id \in DOMAIN st.sess[s].messageHandlers
  THEN [runHandler(st, s, st.sess[s].messageHandlers[data.id], data).st
          EXCEPT !.sess[s].messageHandlers = Del(@, data.id)]
  ELSE _defaultMessageHandler(st, s, data)

_response(st, s, data) ==
  IF data.id \in DOMAIN st.sess[s].messageHandlers
  THEN LET r == runHandler(st, s, st.sess[s].messageHandlers[data.id], data)
       IN IF r.res
          THEN [r.st EXCEPT !.sess[s].messageHandlers = Del(@, data.id)]
          ELSE r.st
  ELSE _defaultMessageHandler(st, s, data)

----------------------------------------------------------------------------
(* NReplClient.create: the decoder's data handler *)

\* debug.onNreplMessage: a need-debug-input message becomes the pending debug response
onNreplMessage(st, data) ==
  IF hasStatus(data, "need-debug-input") THEN [st EXCEPT !.debugResponse = data.id] ELSE st

\* dispatch that sends clone on any message of the bootstrap eval
dispatchCloneEarly(st, data) ==
  IF ~st.describe.has /\ data.id = DescribeId
  THEN [st EXCEPT !.describe = [has |-> TRUE, ops |-> data.ops]]
  ELSE IF data.id = NsId
  THEN write(st, Req("clone", CloneId, UNDEF, 0))
  ELSE IF data.id = CloneId
  THEN LET s1 == newNReplSession(st, data.newSession)
       IN write([s1 EXCEPT !.session = Len(s1.sess)],
                Req("describe", DescribeId, data.newSession, 0))
  ELSE IF Truthy(data.session)
  THEN IF data.session \in DOMAIN st.sessions
       THEN _response(st, st.sessions[data.session], data)
       ELSE st
  ELSE st

\* dispatch, but a message naming no registered session goes to the client's
\* own session instead of being dropped
dispatchToDefault(st, data) ==
  IF ~st.describe.has /\ data.id = DescribeId
  THEN [st EXCEPT !.describe = [has |-> TRUE, ops |-> data.ops]]
  ELSE IF data.id = NsId
  THEN IF hasStatus(data, "done") THEN write(st, Req("clone", CloneId, UNDEF, 0)) ELSE st
  ELSE IF data.id = CloneId
  THEN LET s1 == newNReplSession(st, data.newSession)
       IN write([s1 EXCEPT !.session = Len(s1.sess)],
                Req("describe", DescribeId, data.newSession, 0))
  ELSE IF Truthy(data.session) /\ data.session \in DOMAIN st.sessions
  THEN _response(st, st.sessions[data.session], data)
  ELSE IF st.session # 0 THEN _response(st, st.session, data) ELSE st

dispatch(st, data) ==
  IF ~st.describe.has /\ data.id = DescribeId
  THEN [st EXCEPT !.describe = [has |-> TRUE, ops |-> data.ops]]
  ELSE IF data.id = NsId
  THEN IF hasStatus(data, "done") THEN write(st, Req("clone", CloneId, UNDEF, 0)) ELSE st
  ELSE IF data.id = CloneId
  THEN LET s1 == newNReplSession(st, data.newSession)
       IN write([s1 EXCEPT !.session = Len(s1.sess)],
                Req("describe", DescribeId, data.newSession, 0))
  ELSE IF Truthy(data.session)
  THEN IF data.session \in DOMAIN st.sessions
       THEN _response(st, st.sessions[data.session], data)
       ELSE st
  ELSE st

\* resolve(client) as soon as the session exists
resolveOnSession(st) ==
  IF st.session # 0 THEN [st EXCEPT !.created = TRUE] ELSE st

\* if (client.session && client.describe) resolve(client)
resolveWhenReady(st) ==
  IF st.session # 0 /\ st.describe.has THEN [st EXCEPT !.created = TRUE] ELSE st

dataHandler(st, data) == resolveWhenReady(dispatch(onNreplMessage(st, data), data))

----------------------------------------------------------------------------
(* The server: what it may send *)

AllOps ==
  GatedOps \cup UngatedOps \cup VoidOps \cup
  {"eval", "load-file", "clone", "close", "interrupt", "debug-input"}

\* the capability sets a describe response may carry
CapSets == {AllOps, {"eval"}, {}}

Body(status) == [Msg0 EXCEPT !.status = status]

\* the server's n-th piece of output
OutText(n) == "o" \o ToString(n)

\* the messages an evaluation has accumulated for the id (the latest
\* evaluation of the id, when a debug-input reused it)
Heard(st, id) ==
  LET es == { e \in 1..Len(st.evs) : st.evs[e].id = id }
  IN IF es = {} THEN 0
     ELSE Len(st.evs[CHOOSE e \in es : \A f \in es : f <= e].msgs)

\* what the server may send for an eval: the next piece of output, numbered
\* by its place in the stream, or one of the terminal messages
EvalBodies(n) ==
  { [Msg0 EXCEPT !.out = OutText(n)],
    [Msg0 EXCEPT !.value = "v", !.status = <<"done">>],
    [Msg0 EXCEPT !.ex = "Exception", !.status = <<"eval-error", "done">>],
    Body(<<"done">>),
    Body(<<"done", "interrupted">>),
    Body(<<"need-debug-input">>) }

\* what the server may send after a debug input: the value of the form being
\* debugged, or the next breakpoint
DebugBodies ==
  { [Msg0 EXCEPT !.value = "v", !.status = <<"done">>],
    Body(<<"need-debug-input">>) }

\* the terminal messages of an eval in full: an exception, a value (plain, or
\* the one that ends a debug session), a pretty-printed value and the causes
\* of an error in a debug session, each present or not; or a debug value,
\* without a value, with an empty one or with one
ResultBodies ==
  { [Msg0 EXCEPT !.ex = ex, !.value = value, !.pprintOut = pprintOut,
                 !.causes = causes,
                 !.status = IF causes THEN <<"eval-error", "done">> ELSE <<"done">>] :
      ex \in {UNDEF, "Exception"},
      value \in {UNDEF, "v", DEBUG_QUIT_VALUE},
      pprintOut \in {UNDEF, "pp"},
      causes \in BOOLEAN }
  \cup
  { [Msg0 EXCEPT !.value = value, !.debugValue = "dv", !.status = <<"done">>] :
      value \in {UNDEF, "", "v"} }

\* the requests for input among the messages ms
RECURSIVE NeedInputs(_)
NeedInputs(ms) ==
  IF ms = <<>> THEN 0
  ELSE (IF statusEq(Head(ms), "need-input") THEN 1 ELSE 0) + NeedInputs(Tail(ms))

\* the server's evaluation of this id waits for input: it has asked for more
\* input than the client has written
Blocked(st, id) ==
  \E e \in 1..Len(st.evs) :
    /\ st.evs[e].id = id
    /\ NeedInputs(st.evs[e].msgs)
         > Cardinality({ j \in 1..Len(st.wire) : st.wire[j].op = "stdin" })

\* what the server may send for the eval with this id when evaluations run
\* side by side: output and a value that name the id, or a request for input;
\* nothing while the evaluation waits for input
MuxBodies(st, id) ==
  IF Blocked(st, id) THEN {}
  ELSE { [Msg0 EXCEPT !.out = "out " \o ToString(id)],
         Body(<<"need-input">>),
         [Msg0 EXCEPT !.value = "value " \o ToString(id), !.status = <<"done">>] }

ReplyBodies == { Body(<<"done">>), Body(<<"error", "unknown-op", "done">>) }

NsBodies == { [Msg0 EXCEPT !.value = "v"], Body(<<"done">>) }

\* the server names the sessions it creates s1, s2, ... in order
SessionName(n) == "s" \o ToString(n)

CloneBodies(st, done) ==
  { [Msg0 EXCEPT !.status = <<"done">>,
                 !.newSession =
                    SessionName(1 + Cardinality({i \in done : st.wire[i].op = "clone"}))] }

DescribeBodies == { [Msg0 EXCEPT !.ops = caps, !.status = <<"done">>] : caps \in CapSets }

\* the bodies the server may send in answer to the request w
Bodies(st, done, w) ==
  IF w.id = NsId THEN NsBodies
  ELSE IF w.op \in {"eval", "load-file"} THEN EvalBodies(Heard(st, w.id) + 1)
  ELSE IF w.op = "debug-input" THEN DebugBodies
  ELSE IF w.op = "clone" THEN CloneBodies(st, done)
  ELSE IF w.op = "describe" THEN DescribeBodies
  ELSE IF w.op = "init-debugger" THEN { Body(<<"need-debug-input">>) }
  ELSE ReplyBodies

\* a response echoes the id and the session of its request
Response(w, b) == [b EXCEPT !.id = w.id, !.session = w.session]

\* the requests the server may still send messages for: those that carry an
\* id and whose terminal message it has not sent
Open(st, done) == { i \in 1..Len(st.wire) : st.wire[i].id # 0 /\ i \notin done }

----------------------------------------------------------------------------
(* Initial state: the connect callback of NReplClient.create has run *)

Init ==
  /\ nextId = 3
  /\ describe = [has |-> FALSE, ops |-> {}]
  /\ clientSession = 0
  /\ sessions = EmptyDict
  /\ created = FALSE
  /\ wire = <<Req("eval", NsId, UNDEF, 0)>>
  /\ sess = <<>>
  /\ sessInstances = <<>>
  /\ evs = <<>>
  /\ evalInstances = <<>>
  /\ calls = <<>>
  /\ debugResponse = 0
  /\ closeHandlers = <<>>
  /\ notified = <<>>
  /\ socketOpen = TRUE
  /\ answered = {}

----------------------------------------------------------------------------
(* Actions *)

\* a message arrives from the transport: the decoder's data handler runs
Receive ==
  \E i \in Open(State, answered) :
    \E b \in Bodies(State, answered, wire[i]) :
      LET st == dataHandler(State, Response(wire[i], b))
      IN /\ socketOpen
         /\ Bounded(st)
         /\ Commit(st)
         /\ answered' = IF hasStatus(b, "done") THEN answered \cup {i} ELSE answered

\* the terminal message of an eval arrives, with any of the fields a server
\* or its middleware may set
ReceiveResult ==
  \E i \in Open(State, answered) :
    \E b \in ResultBodies :
      LET st == dataHandler(State, Response(wire[i], b))
      IN /\ socketOpen
         /\ wire[i].op = "eval" /\ wire[i].id # NsId
         /\ Bounded(st)
         /\ Commit(st)
         /\ answered' = answered \cup {i}

\* a message arrives while evaluations run side by side
ReceiveMux ==
  \E i \in Open(State, answered) :
    \E b \in IF wire[i].op = "eval" /\ wire[i].id # NsId
              THEN MuxBodies(State, wire[i].id)
              ELSE Bodies(State, answered, wire[i]) :
      LET st == dataHandler(State, Response(wire[i], b))
      IN /\ socketOpen
         /\ BoundedMux(st)
         /\ Commit(st)
         /\ answered' = IF hasStatus(b, "done") THEN answered \cup {i} ELSE answered

\* NReplSession.eval is called, with a stdin function or without
MuxEval ==
  \E s \in 1..Len(sess), hasStdin \in BOOLEAN :
    LET s1 == eval(State, s, FALSE, FALSE)
        st == [s1 EXCEPT !.evs[Len(s1.evs)].hasStdin = hasStdin]
    IN BoundedMux(st) /\ Commit(st) /\ UNCHANGED answered

\* a request for input is answered: its promise job runs
StdinThen ==
  \E e \in 1..Len(evs), input \in Inputs :
    /\ evs[e].prompts > 0
    /\ LET st == stdinThen(State, e, input)
       IN BoundedMux(st) /\ Commit(st) /\ UNCHANGED answered

\* NReplEvaluation.interruptAll is called
EvInterruptAll ==
  LET st == evInterruptAll(State).st
  IN BoundedMux(st) /\ Commit(st) /\ UNCHANGED answered

\* NReplSession.interruptAll is called
InterruptAll ==
  \E s \in 1..Len(sess) :
    LET st == interruptAll(State, s).st
    IN BoundedMux(st) /\ Commit(st) /\ UNCHANGED answered

Eval ==
  \E s \in 1..Len(sess), active \in BOOLEAN :
    LET st == eval(State, s, active, FALSE)
    IN Bounded(st) /\ Commit(st) /\ UNCHANGED answered

EvInterrupt ==
  \E e \in 1..Len(evs) :
    LET st == evInterrupt(State, e)
    IN Bounded(st) /\ Commit(st) /\ UNCHANGED answered

\* the promise job of a settled stacktrace promise runs
StacktraceThen ==
  \E c \in 1..Len(calls) :
    /\ calls[c].then # 0 /\ calls[c].state # "pending" /\ ~calls[c].thenRun
    /\ Commit(stacktraceThen(State, c))
    /\ UNCHANGED answered

\* the debugger answers the pending debug response
SendDebugInput ==
  \E s \in 1..Len(sess) :
    /\ debugResponse # 0
    /\ LET st == sendDebugInput(State, s, debugResponse)
       IN Bounded(st) /\ Commit(st) /\ UNCHANGED answered

\* the connector assigns the public field replType; every guard in the file
\* compares it with "clj" only
SetReplType ==
  \E s \in 1..Len(sess), t \in {"clj"} :
    /\ sess[s].replType = NULL
    /\ Commit([State EXCEPT !.sess[s].replType = t])
    /\ UNCHANGED answered

\* NReplSession.clone is called
Clone ==
  \E s \in 1..Len(sess) :
    LET st == clone(State, s)
    IN Bounded(st) /\ Commit(st) /\ UNCHANGED answered

\* the operations the model calls through `Call`, one of each shape
CalledOps == {"complete", "out-subscribe", "stdin"}

\* a session operation other than eval, clone and interrupt is called
Call ==
  \E s \in 1..Len(sess), op \in CalledOps :
    LET st == call(State, s, op)
    IN Bounded(st) /\ Commit(st) /\ UNCHANGED answered

\* NReplSession.initDebugger is called
InitDebugger ==
  \E s \in 1..Len(sess) :
    LET st == initDebugger(State, s)
    IN Bounded(st) /\ Commit(st) /\ UNCHANGED answered

\* eval is called in a debug session while a debug response is pending
DebugEval ==
  \E s \in 1..Len(sess) :
    /\ debugResponse # 0 /\ sess[s].replType = "clj"
    /\ LET st == eval(State, s, TRUE, FALSE)
       IN Bounded(st) /\ Commit(st) /\ UNCHANGED answered

\* NReplClient.addOnCloseHandler is called
AddOnCloseHandler ==
  \E fn \in Listeners :
    LET st == [State EXCEPT !.closeHandlers = addOnCloseHandler(@, fn)]
    IN Bounded(st) /\ Commit(st) /\ UNCHANGED answered

\* NReplSession.addOnCloseHandler is called
AddSessionOnCloseHandler ==
  \E s \in 1..Len(sess), fn \in Listeners :
    LET st == [State EXCEPT !.sess[s].onCloseHandlers = addOnCloseHandler(@, fn)]
    IN Bounded(st) /\ Commit(st) /\ UNCHANGED answered

\* NReplSession.close is called
SessionClose ==
  \E s \in 1..Len(sess), writeThrows \in BOOLEAN :
    LET st == sessionClose(Quiet(State), s, writeThrows).st
    IN Bounded(st) /\ Commit(st) /\ UNCHANGED answered

\* NReplClient.close is called
ClientClose ==
  LET st == clientClose(Quiet(State)).st
  IN Bounded(st) /\ Commit(st) /\ UNCHANGED answered

\* the transport emits close
SocketClose ==
  /\ socketOpen
  /\ LET st == onSocketClose(Quiet(State)).st
     IN Bounded(st) /\ Commit(st) /\ UNCHANGED answered

\* one session, its evaluations and their interrupts
Next ==
  \/ Receive
  \/ Eval
  \/ EvInterrupt
  \/ StacktraceThen

Spec == Init /\ [][Next]_vars

\* several sessions and their operations
NextOps ==
  \/ Receive
  \/ Clone
  \/ Call

SpecOps == Init /\ [][NextOps]_vars

\* several sessions and the debugger
NextDebug ==
  \/ Receive
  \/ Clone
  \/ InitDebugger
  \/ SetReplType
  \/ SendDebugInput
  \/ DebugEval

SpecDebug == Init /\ [][NextDebug]_vars

\* one session, its evaluations and all their outcomes
NextOutcome ==
  \/ Receive
  \/ ReceiveResult
  \/ Eval
  \/ StacktraceThen

SpecOutcome == Init /\ [][NextOutcome]_vars

\* evaluations side by side in one session, and their requests for input
NextMux ==
  \/ ReceiveMux
  \/ MuxEval
  \/ StdinThen
  \/ InterruptAll
  \/ EvInterruptAll

SpecMux == Init /\ [][NextMux]_vars

\* a message arrives from a server that ends every request: it sends the done
\* message of an evaluation after at most MaxMsgs - 1 others
ReceiveLive ==
  \E i \in Open(State, answered) :
    \E b \in Bodies(State, answered, wire[i]) :
      LET st == dataHandler(State, Response(wire[i], b))
      IN /\ socketOpen
         /\ hasStatus(b, "done") \/ Heard(State, wire[i].id) + 1 < MaxMsgs
         /\ Bounded(st)
         /\ Commit(st)
         /\ answered' = IF hasStatus(b, "done") THEN answered \cup {i} ELSE answered

\* the server answers a request with its done message
Answer == ReceiveLive /\ answered' # answered

\* evaluations while sessions and the transport may close
NextLive ==
  \/ ReceiveLive
  \/ Eval
  \/ EvInterrupt
  \/ StacktraceThen
  \/ SessionClose
  \/ SocketClose

\* the server answers every request it has received, and a promise job that
\* is queued runs
Fairness == WF_vars(Answer) /\ WF_vars(StacktraceThen)

SpecLive == Init /\ [][NextLive]_vars /\ Fairness

\* several sessions, their operations and their closing
NextRoute ==
  \/ Receive
  \/ Clone
  \/ Call
  \/ SessionClose

SpecRoute == Init /\ [][NextRoute]_vars

\* the client's session, the close listeners and the ways a connection ends
NextClose ==
  \/ Receive
  \/ AddOnCloseHandler
  \/ AddSessionOnCloseHandler
  \/ SessionClose
  \/ ClientClose
  \/ SocketClose

SpecClose == Init /\ [][NextClose]_vars

----------------------------------------------------------------------------
(* Properties *)

Evals == 1..Len(evs)

\* the promise jobs chained on a stacktrace promise for evaluation e
ThenCalls(e) == { c \in 1..Len(calls) : calls[c].then = e }

\* C1: under every interleaving of messages, interrupts and the stacktrace
\* response, the callbacks of an evaluation's promise are invoked at most once;
\* finished, once true, stays true, and from then on no step and no further
\* doResolve / doReject invokes a callback.
C1_SettledAtMostOnce ==
  /\ [](\A e \in Evals :
          /\ Len(evs[e].settles) <= 1
          /\ evs[e].finished =>
               /\ doReject(State, e, "x").evs[e].settles = evs[e].settles
               /\ doResolve(State, e, "x").evs[e].settles = evs[e].settles)
  /\ [][\A e \in Evals :
          evs[e].finished => evs'[e].finished /\ evs'[e].settles = evs[e].settles]_vars

\* the race of C1 has happened: e was interrupted while its stacktrace was
\* being fetched, and the promise job of the fetch ran afterwards
C1_Witness ==
  \E e \in Evals :
    /\ evs[e].interrupted /\ evs[e].finished
    /\ evs[e].settles = <<Settle("reject", INTERRUPTED_MSG)>>
    /\ \E c \in ThenCalls(e) : calls[c].thenRun


GotDone(e) == \E i \in 1..Len(evs[e].msgs) : hasStatus(evs[e].msgs[i], "done")

\* C2 as claimed: once an evaluation has processed a done message it has
\* been resolved or rejected exactly once and is not in the live-instance set.
C2_SettledWhenDone ==
  \A e \in Evals :
    GotDone(e) => Len(evs[e].settles) = 1 /\ ~InSeq(e, evalInstances)

\* C2 amended: once an evaluation has processed a done message it is not in
\* the live-instance set and has been resolved or rejected at most once; it has
\* been settled exactly once unless the promise job of a stacktrace fetch is
\* still to run, which is the case only with an exception recorded and
\* stacktrace in the capability set.
C2_SettledOnceAfterDone ==
  \A e \in Evals :
    GotDone(e) =>
      /\ ~InSeq(e, evalInstances)
      /\ Len(evs[e].settles) <= 1
      /\ Len(evs[e].settles) = 0 => \E c \in ThenCalls(e) : ~calls[c].thenRun
      /\ ThenCalls(e) # {} => supports(State, "stacktrace") /\ Truthy(evs[e].exception)

\* a done message was processed, the rejection waited for the stacktrace and
\* has happened
C2_Witness ==
  \E e \in Evals :
    /\ GotDone(e) /\ ~evs[e].interrupted
    /\ Len(evs[e].settles) = 1
    /\ \E c \in ThenCalls(e) : calls[c].thenRun

RequestsWithId == { i \in 1..Len(wire) : wire[i].id # 0 }

\* requests whose id comes from nextId
FreshRequests == { i \in RequestsWithId : wire[i].op # "debug-input" }

\* C3 as claimed: no two requests written to the transport carry the same id.
C3_NoIdTwice ==
  \A i, j \in RequestsWithId : i # j => wire[i].id # wire[j].id

\* C3 amended: the requests other than debug-input carry ids of the one
\* counter, strictly increasing in the order written, so no two of them share
\* an id; the counter never decreases; a debug-input request carries the id of
\* an earlier request (the pending debug response's).
C3_FreshIdsUnique ==
  /\ [](/\ \A i, j \in FreshRequests : i < j => wire[i].id < wire[j].id
        /\ \A i \in RequestsWithId : wire[i].id <= nextId
        /\ \A i \in RequestsWithId \ FreshRequests :
             \E j \in FreshRequests : j < i /\ wire[j].id = wire[i].id)
  /\ [][nextId' >= nextId]_vars

\* two sessions have issued requests, and an eval called in one of them while
\* a debug response was pending was written as a debug-input request under
\* the id of a request of the other
C3_Witness ==
  \E e \in Evals, i \in RequestsWithId \ FreshRequests, j \in FreshRequests :
    /\ evs[e].id = wire[i].id /\ wire[j].id = wire[i].id
    /\ wire[j].id > DescribeId
    /\ wire[i].session # wire[j].session
    /\ Len(sess) > 1


Sessions == 1..Len(sess)

\* the call of op left state st having declined: its promise is resolved with
\* undefined (interrupt: rejected with the not-supported error)
Declined(st, op) ==
  IF op \in VoidOps THEN TRUE
  ELSE IF op \in {"eval", "load-file"}
  THEN /\ Len(st.evs) = Len(evs) + 1
       /\ st.evs[Len(st.evs)].settles = <<Settle("resolve", UNDEF)>>
  ELSE /\ Len(st.calls) = Len(calls) + 1
       /\ LET c == st.calls[Len(st.calls)]
          IN IF op = "interrupt"
             THEN c.state = "rejected" /\ c.value = NOT_SUPPORTED_MSG
             ELSE c.state = "resolved" /\ c.value = UNDEF

\* C4: with the capability set known, every session operation whose op name
\* is absent from it writes nothing to the transport and resolves with
\* undefined (interrupt: rejects with the not-supported error).
C4_GatedWhenAbsent ==
  \A s \in Sessions, op \in SessionOps :
    (describe.has /\ op \notin describe.ops) =>
      LET st == call(State, s, op)
      IN st.wire = wire /\ Declined(st, op)

InterruptReq(st, e) ==
  Req("interrupt", st.nextId + 1, st.sess[st.evs[e].session].sessionId, st.evs[e].id)

\* C5 as claimed: interrupt called twice on a running evaluation writes exactly
\* one interrupt request, rejects once with the interruption message, and the
\* second call changes nothing.
C5_InterruptTwiceOneRequest ==
  \A e \in Evals :
    (evs[e].running /\ ~evs[e].interrupted) =>
      LET s1 == evInterrupt(State, e)
          s2 == evInterrupt(s1, e)
      IN /\ s2 = s1
         /\ s2.wire = Append(wire, InterruptReq(State, e))
         /\ s2.evs[e].settles = <<Settle("reject", INTERRUPTED_MSG)>>

\* C5 amended: interrupt called twice on a running evaluation writes exactly
\* one interrupt request when interrupt is in the capability set and none when
\* it is not, rejects once with the interruption message, and the second call
\* changes nothing; on an evaluation already interrupted it changes nothing.
C5_InterruptTwice ==
  \A e \in Evals :
    /\ (evs[e].running /\ ~evs[e].interrupted) =>
         LET s1 == evInterrupt(State, e)
             s2 == evInterrupt(s1, e)
         IN /\ s2 = s1
            /\ s2.wire = IF supports(State, "interrupt")
                         THEN Append(wire, InterruptReq(State, e))
                         ELSE wire
            /\ s2.evs[e].settles = <<Settle("reject", INTERRUPTED_MSG)>>
    /\ evs[e].interrupted =>
         /\ evInterrupt(State, e) = State
         /\ evs[e].settles = <<Settle("reject", INTERRUPTED_MSG)>>

\* an evaluation was interrupted and its interrupt request is on the wire
C5_Witness ==
  \E e \in Evals :
    /\ evs[e].interrupted
    /\ \E i \in 1..Len(wire) : wire[i].op = "interrupt" /\ wire[i].iid = evs[e].id

\* the messages the server may send now for the id of evaluation e that
\* carry done
LateDone(e) ==
  UNION { { Response(wire[i], b) :
              b \in { x \in Bodies(State, answered, wire[i]) : hasStatus(x, "done") } } :
          i \in { j \in Open(State, answered) : wire[j].id = evs[e].id } }

\* C6: interrupt leaves no handler for the evaluation's id, and a done
\* message that arrives for that id after the interrupt changes neither the
\* evaluation nor the session's handler table and running-id set.
C6_LateDoneIsNoOp ==
  \A e \in Evals :
    /\ (evs[e].running /\ ~evs[e].interrupted) =>
         evs[e].id \notin DOMAIN evInterrupt(State, e).sess[evs[e].session].messageHandlers
    /\ (evs[e].interrupted /\ evs[e].id \notin DOMAIN sess[evs[e].session].messageHandlers) =>
         \A m \in LateDone(e) :
           LET st == dataHandler(State, m)
           IN st.evs = evs /\ st.sess = sess


Ready == clientSession # 0 /\ describe.has

\* C7: the promise of NReplClient.create is resolved only when the first
\* session exists and the capability set is populated, and it is resolved in
\* the very step that makes both true.
C7_CreatedOnlyWhenReady ==
  /\ [](created => Ready)
  /\ [][Ready' => created']_vars

\* bootstrap has completed and the promise is resolved
C7_Witness == created /\ Ready /\ "eval" \in describe.ops

Written(op, id) == { i \in 1..Len(wire) : wire[i].op = op /\ wire[i].id = id }

\* C8: the bootstrap requests are written in the order eval, clone, describe;
\* clone only once the server has sent the done message of the bootstrap eval,
\* describe only in the step that receives the clone response and with that
\* response's new-session id; the first session takes that id and is
\* registered under it.
C8_BootstrapOrder ==
  /\ [](/\ wire[1] = Req("eval", NsId, UNDEF, 0)
        /\ Written("clone", CloneId) # {} => 1 \in answered
        /\ \A i \in Written("clone", CloneId), j \in Written("describe", DescribeId) :
             1 < i /\ i < j /\ i \in answered
        /\ clientSession # 0 => Written("describe", DescribeId) # {})
  /\ [][(Written("describe", DescribeId)' # Written("describe", DescribeId)) =>
          \E i \in Open(State, answered) :
            \E b \in Bodies(State, answered, wire[i]) :
              /\ wire[i].id = CloneId
              /\ State' = dataHandler(State, Response(wire[i], b))
              /\ wire' = Append(wire, Req("describe", DescribeId, b.newSession, 0))
              /\ clientSession = 0 /\ clientSession' = Len(sess')
              /\ sess'[clientSession'].sessionId = b.newSession
              /\ sessions'[b.newSession] = clientSession']_vars

\* the three bootstrap requests are on the wire and the first session exists
C8_Witness ==
  /\ Len(wire) >= 3
  /\ wire[2].op = "clone" /\ wire[3].op = "describe"
  /\ clientSession # 0 /\ sess[clientSession].sessionId = wire[3].session

\* the message evaluation e processed in this step, when it was a terminal one
TerminalStep(e) ==
  /\ Len(evs'[e].msgs) = Len(evs[e].msgs) + 1
  /\ isTerminal(evs'[e].msgs[Len(evs'[e].msgs)])

\* C9: when an evaluation processes its terminal message with an exception
\* recorded (value not the debug-quit sentinel) and stacktrace supported, the
\* stacktrace request is written in that step and the evaluation is not yet
\* rejected; when the promise job of the stacktrace call runs, after it
\* resolved and after it rejected alike, the evaluation is finished and, unless
\* it was finished already, rejected with the exception text.
C9_StacktraceBeforeReject ==
  /\ [][\A e \in Evals :
          (/\ TerminalStep(e)
           /\ Truthy(evs'[e].exception)
           /\ msgValue(evs'[e]) # DEBUG_QUIT_VALUE
           /\ supports(State, "stacktrace")) =>
            /\ wire' = Append(wire, Req("stacktrace", nextId + 1,
                                        sess[evs[e].session].sessionId, 0))
            /\ evs'[e].settles = <<>> /\ ~evs'[e].finished
            /\ Len(calls') = Len(calls) + 1
            /\ calls'[Len(calls')] = NewCall("stacktrace", "pending", UNDEF, e)]_vars
  /\ [][\A c \in 1..Len(calls) :
          (calls[c].then # 0 /\ ~calls[c].thenRun /\ calls'[c].thenRun) =>
            LET e == calls[c].then
            IN /\ calls[c].state \in {"resolved", "rejected"}
               /\ evs'[e].finished
               /\ ~evs[e].finished =>
                    evs'[e].settles = <<Settle("reject", evs[e].exception)>>]_vars
  /\ [](\A e \in Evals :
          (evs[e].finished /\ ~evs[e].interrupted /\ ThenCalls(e) # {}) =>
            evs[e].settles = <<Settle("reject", "Exception")>>)

\* the stacktrace call was rejected and the evaluation was then rejected with
\* the exception text
C9_Witness ==
  \E e \in Evals :
    /\ evs[e].settles = <<Settle("reject", "Exception")>>
    /\ \E c \in ThenCalls(e) : calls[c].thenRun /\ calls[c].state = "rejected"

\* a message that carries an out payload and nothing else
PureOut(m) ==
  Truthy(m.out) /\ [m EXCEPT !.out = UNDEF, !.id = 0, !.session = UNDEF] = Msg0

\* a done message that carries a value and nothing else
ValueDone(m) ==
  /\ m.value # UNDEF /\ hasStatus(m, "done")
  /\ [m EXCEPT !.value = UNDEF, !.status = <<>>, !.id = 0, !.session = UNDEF] = Msg0

RECURSIVE Concat(_)
Concat(ms) == IF ms = <<>> THEN "" ELSE Head(ms).out \o Concat(Tail(ms))

\* the accumulated output as text: nothing accumulated is the empty text
Text(x) == IF x = UNDEF THEN "" ELSE x

\* C10: an evaluation (client-side pretty printing off) that processed
\* messages carrying out payloads o1..on and then a done message carrying
\* value v has accumulated o1..on in arrival order and is resolved with v.
C10_OutputInOrder ==
  \A e \in Evals :
    LET ms == evs[e].msgs
        n == Len(ms)
    IN (/\ n >= 1 /\ ~evs[e].pprint
        /\ ValueDone(ms[n])
        /\ \A i \in 1..(n - 1) : PureOut(ms[i])) =>
         /\ Text(evs[e].outPut) = Concat(SubSeq(ms, 1, n - 1))
         /\ evs[e].settles = <<Settle("resolve", ms[n].value)>>

\* two different out payloads and then the value arrived
C10_Witness ==
  \E e \in Evals :
    /\ Len(evs[e].msgs) = 3
    /\ PureOut(evs[e].msgs[1]) /\ PureOut(evs[e].msgs[2])
    /\ evs[e].msgs[1].out # evs[e].msgs[2].out
    /\ ValueDone(evs[e].msgs[3])
    /\ evs[e].outPut = evs[e].msgs[1].out \o evs[e].msgs[2].out
    /\ evs[e].settles = <<Settle("resolve", "v")>>

----------------------------------------------------------------------------
(* Closing a connection and its sessions *)

\* the listener fn was called with `on` by the closing operation last run
Called(st, fn, on) == \E i \in 1..Len(st.notified) : st.notified[i] = Note(fn, on)

\* every listener of the client and of every registered session was called
AllNotified(before, after) ==
  /\ \A i \in 1..Len(before.closeHandlers) :
       Called(after, before.closeHandlers[i], 0)
  /\ \A s \in 1..Len(before.sess) :
       Registered(before, s) =>
         \A i \in 1..Len(before.sess[s].onCloseHandlers) :
           Called(after, before.sess[s].onCloseHandlers[i], s)

\* C11: when the transport closes, the close listeners of the connection and
\* of every session in the registry are all invoked, and no exception of a
\* listener leaves the close callback.
C11_CloseNotifiesAll ==
  socketOpen =>
    LET r == onSocketClose(Quiet(State))
    IN ~r.thrown /\ AllNotified(State, r.st)

\* C12: NReplSession.close always leaves the session with no running ids,
\* absent from the client's registry and from the live sessions, and with
\* all its close listeners invoked: with close supported or not, and also
\* when writing the close message throws.
C12_CloseAlwaysCleansUp ==
  \A s \in 1..Len(sess), writeThrows \in BOOLEAN :
    LET st == sessionClose(Quiet(State), s, writeThrows).st
    IN /\ st.sess[s].runningIds = <<>>
       /\ sess[s].sessionId \notin DOMAIN st.sessions
       /\ ~InSeq(s, st.sessInstances)
       /\ \A i \in 1..Len(sess[s].onCloseHandlers) :
            Called(st, sess[s].onCloseHandlers[i], s)

----------------------------------------------------------------------------
(* Interrupting an evaluation *)

\* the promises of interrupt requests that were rejected: interrupt
\* unsupported, or answered unknown-op
FailedInterrupts ==
  { c \in 1..Len(calls) : /\ calls[c].op = "interrupt"
                          /\ calls[c].state = "rejected" }

\* C13: interrupt on a running evaluation marks it interrupted and finished
\* and rejects its promise with the interruption message in that same step,
\* before any response of the server; the evaluation stays so whatever
\* becomes of the interrupt request, also when that request fails.
C13_InterruptRejectsAtOnce ==
  \A e \in Evals :
    /\ (evs[e].running /\ ~evs[e].interrupted) =>
         LET ev == evInterrupt(State, e).evs[e]
         IN /\ ev.interrupted /\ ev.finished /\ ~ev.running
            /\ ev.exception = INTERRUPTED_MSG
            /\ ev.settles = <<Settle("reject", INTERRUPTED_MSG)>>
    /\ evs[e].interrupted =>
         /\ evs[e].finished
         /\ evs[e].settles = <<Settle("reject", INTERRUPTED_MSG)>>

\* an evaluation was interrupted and the interrupt request was answered
\* unknown-op
C13_Witness ==
  \E e \in Evals :
    /\ evs[e].interrupted /\ evs[e].finished
    /\ evs[e].settles = <<Settle("reject", INTERRUPTED_MSG)>>
    /\ \E c \in FailedInterrupts : calls[c].value = "unknown-op"

----------------------------------------------------------------------------
(* Dispatch of a message by its id *)

\* the messages the server may send now
Deliverable ==
  UNION { { Response(wire[i], b) : b \in Bodies(State, answered, wire[i]) } :
          i \in Open(State, answered) }

\* C14: the default handler adds the id of a message to the running ids
\* only when the message is not terminal: a message whose status contains
\* done, alone or with other tags, never adds its id; any other message adds
\* its id, once.
C14_TerminalNeverAdded ==
  \A s \in 1..Len(sess) :
    \A m \in Deliverable :
      LET before == sess[s].runningIds
          after == _defaultMessageHandler(State, s, m).sess[s].runningIds
      IN IF hasStatus(m, "done") THEN after = before
         ELSE IF InSeq(m.id, before) THEN after = before
         ELSE after = Append(before, m.id)

\* the handler h has run on the message m between the states st and after
Invoked(st, after, h, m) ==
  IF h.kind = "eval"
  THEN after.evs[h.ref].msgs = Append(st.evs[h.ref].msgs, m)
  ELSE st.calls[h.ref].state = "pending" => after.calls[h.ref].state # "pending"

\* C15: _response on a message whose id has a registered handler invokes
\* that handler and not the default handler, and removes the handler exactly
\* when it returned a truthy value; on a message whose id has no handler it
\* runs the default handler and leaves the handler table unchanged.
C15_ResponseRouting ==
  \A s \in 1..Len(sess) :
    \A m \in Deliverable :
      LET hs == sess[s].messageHandlers
          st == _response(State, s, m)
      IN IF m.id \in DOMAIN hs
         THEN /\ Invoked(State, st, hs[m.id], m)
              /\ st.sess[s].runningIds = sess[s].runningIds
              /\ st.sess[s].replType = sess[s].replType
              /\ (m.id \notin DOMAIN st.sess[s].messageHandlers)
                   <=> runHandler(State, s, hs[m.id], m).res
              /\ \A k \in DOMAIN hs \ {m.id} :
                   /\ k \in DOMAIN st.sess[s].messageHandlers
                   /\ st.sess[s].messageHandlers[k] = hs[k]
         ELSE /\ st = _defaultMessageHandler(State, s, m)
              /\ st.sess[s].messageHandlers = hs
              /\ st.evs = evs /\ st.calls = calls

\* a handler that returned a falsy value is still registered, and a message
\* without a handler went to the default handler
C15_Witness ==
  /\ \E e \in Evals :
       /\ Len(evs[e].msgs) >= 1 /\ ~evs[e].finished
       /\ evs[e].id \in DOMAIN sess[evs[e].session].messageHandlers
  /\ \E s \in 1..Len(sess) : sess[s].runningIds # <<>>

\* C16: interrupt on an evaluation that has received no message, or that is
\* finished or already interrupted, changes no state and writes nothing.
C16_InterruptWhenIdle ==
  \A e \in Evals :
    (evs[e].msgs = <<>> \/ evs[e].finished \/ evs[e].interrupted) =>
      evInterrupt(State, e) = State

\* an evaluation that resolved by itself is asked to interrupt: nothing changes
C16_Witness ==
  \E e \in Evals :
    /\ evs[e].finished /\ ~evs[e].interrupted
    /\ evs[e].settles = <<Settle("resolve", "v")>>
    /\ evInterrupt(State, e) = State

----------------------------------------------------------------------------
(* The outcome of an evaluation *)

\* the evaluations whose last message carried done
Ended == { e \in Evals : evs[e].msgs # <<>> /\ hasStatus(evs[e].msgs[Len(evs[e].msgs)], "done") }

Last(e) == evs[e].msgs[Len(evs[e].msgs)]

\* evaluation e is rejected with reason, at once or when the promise job
\* chained on its stacktrace request has run
RejectedWith(e, reason) ==
  \/ evs[e].settles = <<Settle("reject", reason)>>
  \/ /\ evs[e].settles = <<>>
     /\ \E c \in ThenCalls(e) : ~calls[c].thenRun

BothValues ==
  { e \in Evals : /\ evs[e].msgs # <<>>
                  /\ Last(e).value # UNDEF /\ Last(e).debugValue # UNDEF }

\* C18 as claimed: when a message carries both value and debug-value, the
\* result the evaluation records is the debug-value.
C18_DebugValueWins ==
  \A e \in BothValues : evs[e].msgValue = Last(e).debugValue

\* C18 amended: when a message carries both value and debug-value, the result
\* the evaluation records is the value; the debug-value is recorded only when
\* the value is the empty text.
C18_ValueWins ==
  \A e \in BothValues :
    evs[e].msgValue = IF Last(e).value # "" THEN Last(e).value ELSE Last(e).debugValue

\* a message with a value and a debug value ended an evaluation, which
\* resolved with the value
C18_Witness ==
  \E e \in BothValues :
    /\ Last(e).value = "v" /\ Last(e).debugValue = "dv"
    /\ evs[e].msgValue = "v"
    /\ evs[e].settles = <<Settle("resolve", "v")>>

----------------------------------------------------------------------------
(* Evaluations side by side *)

\* the output the messages ms carry, in order
RECURSIVE OutOf(_)
OutOf(ms) ==
  IF ms = <<>> THEN ""
  ELSE (IF Truthy(Head(ms).out) THEN Head(ms).out ELSE "") \o OutOf(Tail(ms))

\* the text put out for each of k dismissed requests for input
RECURSIVE Dismissed(_)
Dismissed(k) == IF k = 0 THEN "" ELSE "Sending interrupt." \o Dismissed(k - 1)

\* the request on the wire that evaluation e made
RequestOf(e) == CHOOSE i \in 1..Len(wire) : wire[i].id = evs[e].id

\* the evaluations that still have their handler
Listening ==
  { e \in Evals : /\ ~evs[e].finished
                  /\ evs[e].id \in DOMAIN sess[evs[e].session].messageHandlers }

\* C19: multiplexing is per id.  Whatever the interleaving of the messages of
\* two evaluations in flight, each evaluation has received only messages of
\* its own id, has accumulated their output and no output of another id (only
\* the notice of each request for input that was dismissed), and, once its
\* done message came, is resolved with its own value; and while an evaluation
\* waits for the answer to a request for input, a message for another id is
\* dispatched to that id's evaluation, which completes on its done message.
C19_PerIdMultiplexing ==
  /\ \A e \in Evals :
       /\ \A i \in 1..Len(evs[e].msgs) : evs[e].msgs[i].id = evs[e].id
       /\ \E k \in 0..NeedInputs(evs[e].msgs) :
            Text(evs[e].outPut) = OutOf(evs[e].msgs) \o Dismissed(k)
       /\ e \in Ended =>
            evs[e].settles = <<Settle("resolve", "value " \o ToString(evs[e].id))>>
  /\ \A e1 \in Evals :
       evs[e1].prompts > 0 =>
         \A e2 \in Listening \ {e1} :
           \A b \in MuxBodies(State, evs[e2].id) :
             LET m == Response(wire[RequestOf(e2)], b)
                 st == dataHandler(State, m)
             IN /\ st.evs[e2].msgs = Append(evs[e2].msgs, m)
                /\ st.evs[e1] = evs[e1]
                /\ hasStatus(m, "done") =>
                     st.evs[e2].settles = <<Settle("resolve", m.value)>>

\* one evaluation waits for the answer to its request for input, having
\* accumulated its own output, and another has accumulated its own output and
\* is resolved with its own value
C19_Witness ==
  \E e1 \in Evals, e2 \in Evals :
    /\ e1 # e2 /\ evs[e1].id # evs[e2].id
    /\ evs[e1].prompts > 0 /\ ~evs[e1].finished
    /\ evs[e1].outPut = "out " \o ToString(evs[e1].id)
    /\ evs[e2].outPut = "out " \o ToString(evs[e2].id)
    /\ evs[e2].settles = <<Settle("resolve", "value " \o ToString(evs[e2].id))>>

----------------------------------------------------------------------------
(* Interrupting all that runs in a session *)

\* the interrupt requests for the ids R of session s, with the ids that
\* follow nextId
InterruptReqs(s, R) ==
  [k \in 1..Len(R) |-> Req("interrupt", nextId + k, sess[s].sessionId, R[k])]

\* the ids nextId + 1 .. nextId + n are on no request written so far
FreshIds(n) ==
  \A k \in 1..n : \A i \in 1..Len(wire) : wire[i].id # nextId + k

\* C20 as claimed: interruptAll on a session with running ids R returns the
\* size of R, leaves no running id, and writes exactly one interrupt request
\* per id in R, each with a fresh id and the id to interrupt; with no running
\* id it returns 0 and changes nothing.
C20_InterruptAllWritesPerId ==
  \A s \in 1..Len(sess) :
    LET R == sess[s].runningIds
        r == interruptAll(State, s)
    IN IF R = <<>> THEN r.n = 0 /\ r.st = State
       ELSE /\ r.n = Len(R)
            /\ r.st.sess[s].runningIds = <<>>
            /\ FreshIds(Len(R))
            /\ r.st.wire = wire \o InterruptReqs(s, R)

\* C20 amended: interruptAll on a session with running ids R returns the size
\* of R, leaves no running id, and makes exactly one interrupt per id in R,
\* each taking a fresh id: with interrupt in the capability set it writes one
\* request per id, carrying the fresh id and the id to interrupt; without, it
\* writes nothing and every one of the interrupts is rejected, the first
\* rejection not keeping the others from being made.  With no running id it
\* returns 0 and changes nothing.
C20_InterruptAllPerId ==
  \A s \in 1..Len(sess) :
    LET R == sess[s].runningIds
        r == interruptAll(State, s)
        made == SubSeq(r.st.calls, Len(calls) + 1, Len(r.st.calls))
    IN IF R = <<>> THEN r.n = 0 /\ r.st = State
       ELSE /\ r.n = Len(R)
            /\ r.st.sess[s].runningIds = <<>>
            /\ FreshIds(Len(R))
            /\ r.st.nextId = nextId + Len(R)
            /\ Len(made) = Len(R)
            /\ IF supports(State, "interrupt")
               THEN /\ r.st.wire = wire \o InterruptReqs(s, R)
                    /\ \A k \in 1..Len(R) :
                         made[k] = NewCall("interrupt", "pending", UNDEF, 0)
               ELSE /\ r.st.wire = wire
                    /\ \A k \in 1..Len(R) :
                         made[k] = NewCall("interrupt", "rejected", NOT_SUPPORTED_MSG, 0)

\* a session has two running ids and the server supports interrupt:
\* interruptAll returns 2 and writes the two requests
C20_Witness ==
  \E s \in 1..Len(sess) :
    /\ Len(sess[s].runningIds) = 2
    /\ supports(State, "interrupt")
    /\ interruptAll(State, s).n = 2
    /\ interruptAll(State, s).st.wire = wire \o InterruptReqs(s, sess[s].runningIds)
    /\ interruptAll(State, s).st.sess[s].runningIds = <<>>

----------------------------------------------------------------------------
(* Interrupting all live evaluations *)

\* the live evaluations that interruptAll attempts: neither finished nor
\* interrupted
Attempted ==
  { e \in Evals : /\ InSeq(e, evalInstances)
                  /\ ~evs[e].finished /\ ~evs[e].interrupted }

\* C21: NReplEvaluation.interruptAll interrupts every live evaluation that is
\* neither finished nor interrupted, whether or not the interrupt of another
\* one fails, and returns their number; afterwards none of them is live, and
\* the other evaluations are as they were.
C21_InterruptAllLive ==
  LET r == evInterruptAll(State)
  IN /\ r.n = Cardinality(Attempted)
     /\ \A e \in Attempted :
          /\ r.st.evs[e].interrupted /\ r.st.evs[e].finished
          /\ r.st.evs[e].settles = Append(evs[e].settles, Settle("reject", INTERRUPTED_MSG))
          /\ ~InSeq(e, r.st.evalInstances)
     /\ \A e \in Evals \ Attempted : r.st.evs[e] = evs[e]

\* two evaluations are live and the server does not support interrupt, so
\* that the interrupt of each fails: interruptAll returns 2 and leaves none
\* of them live
C21_Witness ==
  /\ Cardinality(Attempted) = 2
  /\ ~supports(State, "interrupt")
  /\ evInterruptAll(State).n = 2
  /\ evInterruptAll(State).st.evalInstances = <<>>

----------------------------------------------------------------------------
(* One-shot handlers *)

\* the handlers of session s made by resultHandler
ResultHandlers(s) ==
  { id \in DOMAIN sess[s].messageHandlers : sess[s].messageHandlers[id].kind = "result" }

\* C22: the handler made by resultHandler rejects its call when the status of
\* the response contains unknown-op and otherwise resolves it with the
\* response as it came; either way the handler is removed on the first
\* response, and a call whose handler is registered has not been settled, so
\* that a call is settled once.
C22_ResultHandlerOneShot ==
  \A s \in 1..Len(sess) :
    \A id \in ResultHandlers(s) :
      LET c == sess[s].messageHandlers[id].ref
      IN /\ calls[c].state = "pending"
         /\ \A m \in { x \in Deliverable : x.id = id } :
              LET st == _response(State, s, m)
              IN /\ id \notin DOMAIN st.sess[s].messageHandlers
                 /\ st.calls[c].state =
                      IF hasStatus(m, "unknown-op") THEN "rejected" ELSE "resolved"
                 /\ ~hasStatus(m, "unknown-op") => st.calls[c].value = raw(m)
                 /\ \A d \in 1..Len(calls) : d # c => st.calls[d] = calls[d]

\* a call was rejected on an unknown-op response, another was resolved, and
\* the handler of neither is registered any more
C22_Witness ==
  \E c \in 1..Len(calls), d \in 1..Len(calls) :
    /\ calls[c].state = "rejected" /\ calls[c].value = "unknown-op"
    /\ calls[d].state = "resolved" /\ calls[d].value # UNDEF
    /\ \A s \in 1..Len(sess) :
         \A id \in ResultHandlers(s) : sess[s].messageHandlers[id].ref \notin {c, d}

--------------------------------------------------------------------------
\* Routing of inbound messages to sessions

\* the messages the server may send now, and the same messages without their
\* session field
Inbound == Deliverable \cup { [m EXCEPT !.session = UNDEF] : m \in Deliverable }

\* the registered session a message names, 0 when it names none
Addressee(m) ==
  IF Truthy(m.session) /\ m.session \in DOMAIN sessions THEN sessions[m.session] ELSE 0

\* C23: once the client is created, an inbound message is handed to the
\* registered session its session field names and changes no other session; a
\* message whose session field is missing or names no registered session (a
\* closed one included) changes no session's handler table, running ids or
\* REPL flavor and settles no call or evaluation.
C23_RoutedBySession ==
  created =>
    \A m \in Inbound :
      LET st == dataHandler(State, m)
          to == Addressee(m)
      IN IF to # 0
         THEN /\ st.sess = _response(State, to, m).sess
              /\ st.calls = _response(State, to, m).calls
              /\ st.evs = _response(State, to, m).evs
              /\ \A s \in 1..Len(sess) : s # to => st.sess[s] = sess[s]
         ELSE /\ st.sess = sess
              /\ st.calls = calls
              /\ st.evs = evs

\* a closed session still has a handler waiting for a message the server may
\* send, while another session is registered and has one waiting too
C23_Witness ==
  /\ created
  /\ \E s, r \in 1..Len(sess), m, k \in Deliverable :
       /\ ~Registered(State, s)
       /\ m.session = sess[s].sessionId
       /\ m.id \in DOMAIN sess[s].messageHandlers
       /\ Addressee(m) = 0
       /\ Addressee(k) = r
       /\ k.id \in DOMAIN sess[r].messageHandlers
       /\ dataHandler(State, k).calls # calls

----------------------------------------------------------------------------
(* Closing a session twice *)

\* C24: a second close of a session that is already closed leaves the
\* client's registry, the live sessions and the running ids as the first
\* close left them, writes no further close message and calls no close
\* listener again.
C24_CloseIdempotent ==
  \A s \in 1..Len(sess), w1, w2 \in BOOLEAN :
    LET first == sessionClose(Quiet(State), s, w1).st
        second == sessionClose(Quiet(first), s, w2).st
    IN /\ second.sessions = first.sessions
       /\ second.sessInstances = first.sessInstances
       /\ second.sess[s].runningIds = first.sess[s].runningIds
       /\ second.wire = first.wire
       /\ second.notified = <<>>

\* the part of C24 that holds: the registries and the running ids
C24_CloseKeepsRegistries ==
  \A s \in 1..Len(sess), w1, w2 \in BOOLEAN :
    LET first == sessionClose(Quiet(State), s, w1).st
        second == sessionClose(Quiet(first), s, w2).st
    IN /\ second.sessions = first.sessions
       /\ second.sessInstances = first.sessInstances
       /\ second.sess[s].runningIds = first.sess[s].runningIds

----------------------------------------------------------------------------
(* Running ids of completed evaluations *)

\* the evaluations whose request the server has answered with its done
\* message, which their handler has processed
Completed ==
  { e \in Evals :
      /\ \E i \in answered : wire[i].id = evs[e].id /\ wire[i].op \in {"eval", "load-file"}
      /\ evs[e].id \notin DOMAIN sess[evs[e].session].messageHandlers }

\* C25: once the done message of an eval or load-file has been processed by
\* its handler, its id is no longer among the running ids of its session, and
\* interruptAll on that session issues no interrupt for it.
C25_DoneLeavesRunningIds ==
  \A e \in Completed :
    LET s == evs[e].session
        after == interruptAll(State, s).st
    IN /\ ~InSeq(evs[e].id, sess[s].runningIds)
       /\ \A i \in Len(wire) + 1..Len(after.wire) : after.wire[i].iid # evs[e].id

----------------------------------------------------------------------------
(* Declined operations and the handler table *)

\* the operations that ask supports() before writing
DeclinableOps == SessionOps \ UngatedOps

\* op, called on session s while absent from the capability set, leaves the
\* handler table and the running ids of s as they were
DeclinedLeavesTables(s, op) ==
  (describe.has /\ op \notin describe.ops) =>
    LET st == call(State, s, op)
    IN /\ st.sess[s].messageHandlers = sess[s].messageHandlers
       /\ st.sess[s].runningIds = sess[s].runningIds

\* C26: a session operation declined because its op is absent from the
\* capability set leaves the handler table and the running ids of the session
\* unchanged, clone included: no handler stays registered for the id that was
\* allocated and never sent.
C26_DeclinedLeavesNoHandler ==
  \A s \in Sessions, op \in DeclinableOps : DeclinedLeavesTables(s, op)

\* the part of C26 that holds: every gated operation but clone
C26_DeclinedButClone ==
  \A s \in Sessions, op \in DeclinableOps \ {"clone"} : DeclinedLeavesTables(s, op)

----------------------------------------------------------------------------
(* Close listeners over the three ways of closing *)

CloseOps == {"transport", "session", "client"}

\* the orders in which the transport closes, a session is closed and the
\* client is closed
CloseOrders ==
  { o \in [1..3 -> CloseOps] : \A i, j \in 1..3 : o[i] = o[j] => i = j }

\* one of the closing operations, keeping the log of listener calls
closeBy(st, op, s) ==
  CASE op = "transport" -> onSocketClose(st).st
    [] op = "session" -> sessionClose(st, s, FALSE).st
    [] op = "client" -> clientClose(st).st

\* the listener calls made while the closing operations run in order o
NotifiedBy(o, s) ==
  closeBy(closeBy(closeBy(Quiet(State), o[1], s), o[2], s), o[3], s).notified

Times(log, note) == Cardinality({ i \in 1..Len(log) : log[i] = note })

\* while the connection is open and session s registered
Live(s) == socketOpen /\ Registered(State, s)

\* C27: over the lifetime of a session each close listener registered on it
\* is called at most once, in whatever order the transport closes,
\* NReplSession.close and NReplClient.close happen.
C27_ListenerAtMostOnce ==
  \A s \in 1..Len(sess), o \in CloseOrders :
    Live(s) =>
      \A i \in 1..Len(sess[s].onCloseHandlers) :
        Times(NotifiedBy(o, s), Note(sess[s].onCloseHandlers[i], s)) <= 1

\* the part of C27 that holds: the orders that begin with NReplSession.close
C27_SessionCloseFirst ==
  \A s \in 1..Len(sess), o \in CloseOrders :
    (Live(s) /\ o[1] = "session") =>
      \A i \in 1..Len(sess[s].onCloseHandlers) :
        Times(NotifiedBy(o, s), Note(sess[s].onCloseHandlers[i], s)) <= 1

----------------------------------------------------------------------------
(* Every written evaluation settles *)

\* the eval or load-file request of evaluation e is on the wire
EvalWritten(e) ==
  /\ e \in 1..Len(evs)
  /\ \E i \in 1..Len(wire) : wire[i].id = evs[e].id /\ wire[i].op \in {"eval", "load-file"}

\* the promise of evaluation e was resolved or rejected
Settled(e) == e \in 1..Len(evs) /\ evs[e].settles # <<>>

\* C28: every evaluation whose eval or load-file request was written is
\* eventually resolved or rejected, given that the server answers every
\* request with a done message (which it can do while the transport is open),
\* with NReplSession.close, NReplEvaluation.interrupt and the closing of the
\* transport allowed at any point.
C28_WrittenEvalSettles ==
  \A e \in 1..MaxEvals : EvalWritten(e) ~> (Settled(e) \/ ~socketOpen)

\* the part of C28 that holds: the evaluation settles unless its session is
\* closed before the answer has been processed
C28_SettlesUnlessClosed ==
  \A e \in 1..MaxEvals :
    EvalWritten(e) ~>
      (Settled(e) \/ ~socketOpen \/ (e \in 1..Len(evs) /\ ~Registered(State, evs[e].session)))

====
